---- MODULE Spec2Model ----
(***************************************************************************)
(* Virtual-Memory-Manager: a page-fault simulator replaying a memory trace *)
(* against a frame pool.  Two programs share the design:                   *)
(*   src/global.cpp  one pool shared by all processes  (engine "global")   *)
(*   src/local.cpp   the pool split into equal partitions (engine "local") *)
(* Each handles one access record per loop iteration (handleAccess) and    *)
(* evicts with one of fifo, lru, optimal, random.                          *)
(*                                                                         *)
(* The functions of the two FrameStatus classes and of the two             *)
(* VirtualMemoryManager classes are operators on records holding the       *)
(* objects' fields; the actions apply handleAccess to the program state.   *)
(* Indices are the code's: frames and trace positions count from 0, so     *)
(* the record at code index j is trace[j + 1] of the TLA+ sequence.        *)
(***************************************************************************)
EXTENDS Integers, Sequences, FiniteSets, TLC

\* The number of page tables and of partitions the constructors create.
NumProcesses == 4

\* Bounds of the explored inputs.
MaxPage == 3         \* page numbers of a process are 1..MaxPage
MaxLen == 5          \* trace length, exhaustive specifications
MaxFrames == 3       \* pool sizes 1..MaxFrames of the global engine
MaxPartition == 2    \* partition sizes 1..MaxPartition of the local engine
MaxRemainder == 1    \* num_frames mod 4 of the local engine: 0..MaxRemainder
MaxLenShared == 6    \* trace length where the shared pool is compared with partitions

Procs == 0 .. (NumProcesses - 1)
Pages == 1 .. MaxPage

\* memory is initialised to {-1, 0}: a free frame.
Free == <<-1, 0>>

\* "clock" stands for any policy string that is none of the four.
Policies == {"fifo", "lru", "optimal", "random", "clock"}
Deterministic == {"fifo", "lru", "optimal"}

Min(S) == CHOOSE x \in S : \A y \in S : x <= y

\* std::list<int>::remove(value): drops every element equal to value.
ListRemove(l, v) == SelectSeq(l, LAMBDA e : e # v)

\* unordered_map<uint64_t,int>: a function on the set of keys present.
MapInsert(m, k, v) == [x \in (DOMAIN m) \cup {k} |-> IF x = k THEN v ELSE m[x]]
MapErase(m, k) == [x \in (DOMAIN m) \ {k} |-> m[x]]
EmptyMap == [x \in {} |-> 0]

\* PageTable(pid): empty page_to_frame, page_fault_count = 0.
PageTable(pid) ==
    [process_id |-> pid, page_to_frame |-> EmptyMap, page_fault_count |-> 0]

(***************************************************************************)
(* optimalReplacement's scan, the same loop in both files.  NextUse is the *)
(* inner loop: the first j > current_index with trace[j] = the frame's     *)
(* occupant, or -1 when the loop ends with found_in_future still false.    *)
(***************************************************************************)
NextUse(trace, current_index, occ) ==
    LET S == {j \in (current_index + 1) .. (Len(trace) - 1) : trace[j + 1] = occ}
    IN  IF S = {} THEN -1 ELSE Min(S)

\* The scan cut short: the first frame of the region is taken unexamined.
OptimalScanFirstFrame(mem, n, trace, current_index, i, acc) ==
    [acc EXCEPT !.farthest_frame = 0, !.old_pid = mem[0][1], !.old_page_no = mem[0][2]]

RECURSIVE OptimalScan(_, _, _, _, _, _)
OptimalScan(mem, n, trace, current_index, i, acc) ==
    IF i >= n THEN acc
    ELSE LET occ == mem[i]
             j == NextUse(trace, current_index, occ)
         IN  IF j = -1
             THEN \* !found_in_future: take this frame and break
                  [acc EXCEPT !.farthest_frame = i,
                              !.old_pid = occ[1], !.old_page_no = occ[2]]
             ELSE OptimalScan(mem, n, trace, current_index, i + 1,
                      IF acc.farthest_index < j
                      THEN [farthest_frame |-> i, farthest_index |-> j,
                            old_pid |-> occ[1], old_page_no |-> occ[2]]
                      ELSE acc)

\* The locals before the loop.  old_page_no starts as (uint64_t)-1, which is
\* never returned once the loop body has run (memoryFrames >= 1).
ScanStart ==
    [farthest_frame |-> -1, farthest_index |-> -1, old_pid |-> -1, old_page_no |-> -1]

(***************************************************************************)
(* src/global.cpp: class FrameStatus                                       *)
(***************************************************************************)
GlobalFrameStatus(memoryF) ==
    [memoryFrames |-> memoryF,
     memory       |-> [f \in 0 .. (memoryF - 1) |-> Free],
     nextFrame    |-> 0,
     lru_list     |-> <<>>]

\* allocateFrame without the test of the frame at the cursor: the frame is
\* taken whether it is free or not.
GlobalAllocateFrameUnchecked(fs, process_id, page_number) ==
    LET f == fs.nextFrame
    IN  [fs |-> [fs EXCEPT !.memory[f] = <<process_id, page_number>>,
                           !.lru_list = Append(@, f),
                           !.nextFrame = (f + 1) % fs.memoryFrames],
         frame |-> f]

\* allocateFrame leaving the cursor where it is.
GlobalAllocateFrameStuckCursor(fs, process_id, page_number) ==
    IF fs.memory[fs.nextFrame][1] = -1
    THEN [fs |-> [fs EXCEPT !.memory[fs.nextFrame] = <<process_id, page_number>>,
                            !.lru_list = Append(@, fs.nextFrame)],
          frame |-> fs.nextFrame]
    ELSE [fs |-> fs, frame |-> -1]

\* allocateFrame entering the new frame at the front of the recency list.
GlobalAllocateFramePushFront(fs, process_id, page_number) ==
    IF fs.memory[fs.nextFrame][1] = -1
    THEN [fs |-> [fs EXCEPT !.memory[fs.nextFrame] = <<process_id, page_number>>,
                            !.lru_list = <<fs.nextFrame>> \o @,
                            !.nextFrame = (fs.nextFrame + 1) % fs.memoryFrames],
          frame |-> fs.nextFrame]
    ELSE [fs |-> fs, frame |-> -1]

GlobalAllocateFrame(fs, process_id, page_number) ==
    IF fs.memory[fs.nextFrame][1] = -1
    THEN [fs |-> [fs EXCEPT !.memory[fs.nextFrame] = <<process_id, page_number>>,
                            !.lru_list = Append(@, fs.nextFrame),
                            !.nextFrame = (fs.nextFrame + 1) % fs.memoryFrames],
          frame |-> fs.nextFrame]
    ELSE [fs |-> fs, frame |-> -1]

GlobalReleaseFrame(fs, frame_id) ==
    [fs EXCEPT !.memory[frame_id] = Free,
               !.lru_list = ListRemove(@, frame_id)]

\* fifoReplacement leaving the cursor where it is.
GlobalFifoReplacementStuckCursor(fs, process_id, page_number) ==
    LET frame_id == fs.nextFrame
        old == fs.memory[frame_id]
        fs1 == GlobalReleaseFrame(fs, frame_id)
    IN  [fs |-> [fs1 EXCEPT !.memory[frame_id] = <<process_id, page_number>>],
         old_pid |-> old[1], old_page_no |-> old[2], frame |-> frame_id]

GlobalFifoReplacement(fs, process_id, page_number) ==
    LET frame_id == fs.nextFrame
        old == fs.memory[frame_id]
        fs1 == GlobalReleaseFrame(fs, frame_id)
        fs2 == [fs1 EXCEPT !.nextFrame = (fs1.nextFrame + 1) % fs1.memoryFrames]
    IN  [fs |-> [fs2 EXCEPT !.memory[frame_id] = <<process_id, page_number>>],
         old_pid |-> old[1], old_page_no |-> old[2], frame |-> frame_id]

GlobalLruReplacement(fs, process_id, page_number) ==
    LET frame_id == Head(fs.lru_list)
        fs1 == [fs EXCEPT !.lru_list = Tail(@)]
        old == fs1.memory[frame_id]
        fs2 == GlobalReleaseFrame(fs1, frame_id)
        fs3 == [fs2 EXCEPT !.memory[frame_id] = <<process_id, page_number>>]
    IN  [fs |-> [fs3 EXCEPT !.lru_list = Append(@, frame_id)],
         old_pid |-> old[1], old_page_no |-> old[2], frame |-> frame_id]

\* optimalReplacement without its look-ahead: the pool's first frame goes.
GlobalOptimalReplacementBlind(fs, process_id, page_number, trace, current_index) ==
    LET old == fs.memory[0]
        fs1 == GlobalReleaseFrame(fs, 0)
    IN  [fs |-> [fs1 EXCEPT !.memory[0] = <<process_id, page_number>>],
         old_pid |-> old[1], old_page_no |-> old[2], frame |-> 0]

GlobalOptimalReplacement(fs, process_id, page_number, trace, current_index) ==
    LET sel == OptimalScan(fs.memory, fs.memoryFrames, trace, current_index, 0, ScanStart)
        fs1 == GlobalReleaseFrame(fs, sel.farthest_frame)
    IN  [fs |-> [fs1 EXCEPT !.memory[sel.farthest_frame] = <<process_id, page_number>>],
         old_pid |-> sel.old_pid, old_page_no |-> sel.old_page_no,
         frame |-> sel.farthest_frame]

\* rnd is the value rand() returns.
GlobalRandomReplacement(fs, process_id, page_number, rnd) ==
    LET random_frame == rnd % fs.memoryFrames
        old == fs.memory[random_frame]
        fs1 == GlobalReleaseFrame(fs, random_frame)
    IN  [fs |-> [fs1 EXCEPT !.memory[random_frame] = <<process_id, page_number>>],
         old_pid |-> old[1], old_page_no |-> old[2], frame |-> random_frame]

\* updateLRU putting the frame at the front of the list.
GlobalUpdateLRUToFront(fs, frame_id) ==
    [fs EXCEPT !.lru_list = <<frame_id>> \o ListRemove(@, frame_id)]

\* updateLRU leaving the list as it is.
GlobalUpdateLRUNone(fs, frame_id) == fs

GlobalUpdateLRU(fs, frame_id) ==
    [fs EXCEPT !.lru_list = Append(ListRemove(@, frame_id), frame_id)]

(***************************************************************************)
(* src/global.cpp: class VirtualMemoryManager.  vm holds the fields the    *)
(* access loop reads and writes: page_tables, frame_status and             *)
(* global_page_fault_count.  handleAccess returns the new vm and, as out,  *)
(* what the call did: the branch taken and the tuple the replacement       *)
(* function returned (old_pid, old_page_no, evicted_frame).                *)
(***************************************************************************)
GlobalManager(nf) ==
    [page_tables |-> [p \in Procs |-> PageTable(p)],
     frame_status |-> GlobalFrameStatus(nf),
     global_page_fault_count |-> 0]

\* UpdateTables without the erase: the evicted page keeps its table entry.
UpdateTablesNoErase(pts, r, process_id, page_number) ==
    [pts EXCEPT ![process_id].page_to_frame = MapInsert(@, page_number, r.frame)]

\* The two statements after every replacement call:
\*   page_tables[old_pid].page_to_frame.erase(old_page_no);
\*   page_tables[process_id].page_to_frame[page_number] = evicted_frame;
UpdateTables(pts, r, process_id, page_number) ==
    LET pts1 == [pts EXCEPT ![r.old_pid].page_to_frame = MapErase(@, r.old_page_no)]
    IN  [pts1 EXCEPT ![process_id].page_to_frame = MapInsert(@, page_number, r.frame)]

\* CountFault without the per-process increment.
CountFaultGlobalOnly(vm, process_id) ==
    [vm EXCEPT !.global_page_fault_count = @ + 1]

\* CountFault charging page_tables[0] whatever the faulting process.
CountFaultFirstTable(vm, process_id) ==
    [vm EXCEPT !.global_page_fault_count = @ + 1,
               !.page_tables[0].page_fault_count = @ + 1]

\* The fault counting at the head of the miss path.
CountFault(vm, process_id) ==
    [vm EXCEPT !.global_page_fault_count = @ + 1,
               !.page_tables[process_id].page_fault_count = @ + 1]

\* The dispatch with the fifo branch calling randomReplacement.
GlobalReplaceFifoRandom(fs, policy, process_id, page_number, trace, current_index, rnd) ==
    CASE policy = "fifo"    -> GlobalRandomReplacement(fs, process_id, page_number, rnd)
      [] policy = "lru"     -> GlobalLruReplacement(fs, process_id, page_number)
      [] policy = "optimal" -> GlobalOptimalReplacement(fs, process_id, page_number,
                                                        trace, current_index)
      [] policy = "random"  -> GlobalRandomReplacement(fs, process_id, page_number, rnd)

GlobalReplace(fs, policy, process_id, page_number, trace, current_index, rnd) ==
    CASE policy = "fifo"    -> GlobalFifoReplacement(fs, process_id, page_number)
      [] policy = "lru"     -> GlobalLruReplacement(fs, process_id, page_number)
      [] policy = "optimal" -> GlobalOptimalReplacement(fs, process_id, page_number,
                                                        trace, current_index)
      [] policy = "random"  -> GlobalRandomReplacement(fs, process_id, page_number, rnd)

GlobalHandleAccess(vm, policy, process_id, page_number, trace, current_index, rnd) ==
    LET page_table == vm.page_tables[process_id]
    IN  IF page_number \in DOMAIN page_table.page_to_frame
        THEN \* page hit
             [vm |-> IF policy = "lru"
                     THEN [vm EXCEPT !.frame_status =
                              GlobalUpdateLRU(@, page_table.page_to_frame[page_number])]
                     ELSE vm,
              out |-> [kind |-> "hit", old_pid |-> -1, old_page_no |-> 0,
                       frame |-> page_table.page_to_frame[page_number]]]
        ELSE LET vm1 == CountFault(vm, process_id)
                 a == GlobalAllocateFrame(vm1.frame_status, process_id, page_number)
             IN  IF a.frame = -1
                 THEN IF policy \in {"fifo", "lru", "optimal", "random"}
                      THEN LET r == GlobalReplace(vm1.frame_status, policy, process_id,
                                                  page_number, trace, current_index, rnd)
                           IN  [vm |-> [vm1 EXCEPT
                                          !.frame_status = r.fs,
                                          !.page_tables = UpdateTables(@, r, process_id,
                                                                       page_number)],
                                out |-> [kind |-> "fault_evict", old_pid |-> r.old_pid,
                                         old_page_no |-> r.old_page_no, frame |-> r.frame]]
                      ELSE \* no branch matches the policy string
                           [vm |-> [vm1 EXCEPT !.frame_status = a.fs],
                            out |-> [kind |-> "fault_dropped", old_pid |-> -1,
                                     old_page_no |-> 0, frame |-> -1]]
                 ELSE [vm |-> [vm1 EXCEPT
                                 !.frame_status = a.fs,
                                 !.page_tables[process_id].page_to_frame =
                                     MapInsert(@, page_number, a.frame)],
                       out |-> [kind |-> "fault_free", old_pid |-> -1,
                                old_page_no |-> 0, frame |-> a.frame]]

(***************************************************************************)
(* src/local.cpp: class FrameStatus.  memory, nextFrame and lru_list are   *)
(* indexed by process: each process owns memoryFramesPerProcess frames.    *)
(***************************************************************************)
\* The constructor rounding the partition size up instead of down.
LocalFrameStatusRoundUp(memoryF, num_processes) ==
    [memoryFramesPerProcess |-> (memoryF + num_processes - 1) \div num_processes,
     memory    |-> [p \in 0 .. (num_processes - 1) |->
                       [f \in 0 .. (((memoryF + num_processes - 1) \div num_processes) - 1)
                           |-> Free]],
     nextFrame |-> [p \in 0 .. (num_processes - 1) |-> 0],
     lru_list  |-> [p \in 0 .. (num_processes - 1) |-> <<>>]]

LocalFrameStatus(memoryF, num_processes) ==
    [memoryFramesPerProcess |-> memoryF \div num_processes,
     memory    |-> [p \in 0 .. (num_processes - 1) |->
                       [f \in 0 .. ((memoryF \div num_processes) - 1) |-> Free]],
     nextFrame |-> [p \in 0 .. (num_processes - 1) |-> 0],
     lru_list  |-> [p \in 0 .. (num_processes - 1) |-> <<>>]]

\* allocateFrame as global.cpp writes it, without the scan: only the frame
\* at the cursor is tried.
LocalAllocateFrameCursorOnly(fs, process_id, page_number) ==
    LET c == fs.nextFrame[process_id]
    IN  IF fs.memory[process_id][c][1] = -1
        THEN [fs |-> [fs EXCEPT !.memory[process_id][c] = <<process_id, page_number>>,
                                !.lru_list[process_id] = Append(@, c)],
              frame |-> c]
        ELSE [fs |-> fs, frame |-> -1]

LocalAllocateFrame(fs, process_id, page_number) ==
    LET free == {i \in 0 .. (fs.memoryFramesPerProcess - 1) :
                    fs.memory[process_id][i][1] = -1}
    IN  IF free # {}
        THEN LET i == Min(free)
             IN  [fs |-> [fs EXCEPT !.memory[process_id][i] = <<process_id, page_number>>,
                                    !.lru_list[process_id] = Append(@, i)],
                  frame |-> i]
        ELSE [fs |-> fs, frame |-> -1]

LocalReleaseFrame(fs, process_id, frame_id) ==
    [fs EXCEPT !.memory[process_id][frame_id] = Free,
               !.lru_list[process_id] = ListRemove(@, frame_id)]

LocalFifoReplacement(fs, process_id, page_number) ==
    LET frame_id == fs.nextFrame[process_id]
        old == fs.memory[process_id][frame_id]
        fs1 == LocalReleaseFrame(fs, process_id, frame_id)
        fs2 == [fs1 EXCEPT !.nextFrame[process_id] =
                               (frame_id + 1) % fs1.memoryFramesPerProcess]
    IN  [fs |-> [fs2 EXCEPT !.memory[process_id][frame_id] = <<process_id, page_number>>],
         old_pid |-> old[1], old_page_no |-> old[2], frame |-> frame_id]

LocalLruReplacement(fs, process_id, page_number) ==
    LET frame_id == Head(fs.lru_list[process_id])
        fs1 == [fs EXCEPT !.lru_list[process_id] = Tail(@)]
        old == fs1.memory[process_id][frame_id]
        fs2 == LocalReleaseFrame(fs1, process_id, frame_id)
        fs3 == [fs2 EXCEPT !.memory[process_id][frame_id] = <<process_id, page_number>>]
    IN  [fs |-> [fs3 EXCEPT !.lru_list[process_id] = Append(@, frame_id)],
         old_pid |-> old[1], old_page_no |-> old[2], frame |-> frame_id]

LocalOptimalReplacement(fs, process_id, page_number, trace, current_index) ==
    LET sel == OptimalScan(fs.memory[process_id], fs.memoryFramesPerProcess,
                           trace, current_index, 0, ScanStart)
        fs1 == LocalReleaseFrame(fs, process_id, sel.farthest_frame)
    IN  [fs |-> [fs1 EXCEPT !.memory[process_id][sel.farthest_frame] =
                                <<process_id, page_number>>],
         old_pid |-> sel.old_pid, old_page_no |-> sel.old_page_no,
         frame |-> sel.farthest_frame]

LocalRandomReplacement(fs, process_id, page_number, rnd) ==
    LET random_frame == rnd % fs.memoryFramesPerProcess
        old == fs.memory[process_id][random_frame]
        fs1 == LocalReleaseFrame(fs, process_id, random_frame)
    IN  [fs |-> [fs1 EXCEPT !.memory[process_id][random_frame] =
                                <<process_id, page_number>>],
         old_pid |-> old[1], old_page_no |-> old[2], frame |-> random_frame]

(***************************************************************************)
(* src/local.cpp: class VirtualMemoryManager                               *)
(***************************************************************************)
LocalManager(nf) ==
    [page_tables |-> [p \in Procs |-> PageTable(p)],
     frame_status |-> LocalFrameStatus(nf, NumProcesses),
     global_page_fault_count |-> 0]

LocalReplace(fs, policy, process_id, page_number, trace, current_index, rnd) ==
    CASE policy = "fifo"    -> LocalFifoReplacement(fs, process_id, page_number)
      [] policy = "lru"     -> LocalLruReplacement(fs, process_id, page_number)
      [] policy = "optimal" -> LocalOptimalReplacement(fs, process_id, page_number,
                                                       trace, current_index)
      [] policy = "random"  -> LocalRandomReplacement(fs, process_id, page_number, rnd)

\* The hit path moving the frame in the first process's list.
LocalTouchFirstList(fs, process_id, frame_id) ==
    [fs EXCEPT !.lru_list[0] = Append(ListRemove(@, frame_id), frame_id)]

\* The hit path's two statements on lru_list[process_id].
LocalTouch(fs, process_id, frame_id) ==
    [fs EXCEPT !.lru_list[process_id] = Append(ListRemove(@, frame_id), frame_id)]

LocalHandleAccess(vm, policy, process_id, page_number, trace, current_index, rnd) ==
    LET page_table == vm.page_tables[process_id]
    IN  IF page_number \in DOMAIN page_table.page_to_frame
        THEN [vm |-> IF policy = "lru"
                     THEN [vm EXCEPT !.frame_status =
                              LocalTouch(@, process_id,
                                         page_table.page_to_frame[page_number])]
                     ELSE vm,
              out |-> [kind |-> "hit", old_pid |-> -1, old_page_no |-> 0,
                       frame |-> page_table.page_to_frame[page_number]]]
        ELSE LET vm1 == CountFault(vm, process_id)
                 a == LocalAllocateFrame(vm1.frame_status, process_id, page_number)
             IN  IF a.frame = -1
                 THEN IF policy \in {"fifo", "lru", "optimal", "random"}
                      THEN LET r == LocalReplace(vm1.frame_status, policy, process_id,
                                                 page_number, trace, current_index, rnd)
                           IN  [vm |-> [vm1 EXCEPT
                                          !.frame_status = r.fs,
                                          !.page_tables = UpdateTables(@, r, process_id,
                                                                       page_number)],
                                out |-> [kind |-> "fault_evict", old_pid |-> r.old_pid,
                                         old_page_no |-> r.old_page_no, frame |-> r.frame]]
                      ELSE [vm |-> [vm1 EXCEPT !.frame_status = a.fs],
                            out |-> [kind |-> "fault_dropped", old_pid |-> -1,
                                     old_page_no |-> 0, frame |-> -1]]
                 ELSE [vm |-> [vm1 EXCEPT
                                 !.frame_status = a.fs,
                                 !.page_tables[process_id].page_to_frame =
                                     MapInsert(@, page_number, a.frame)],
                       out |-> [kind |-> "fault_free", old_pid |-> -1,
                                old_page_no |-> 0, frame |-> a.frame]]

(***************************************************************************)
(* The traces explored.  handleAccess uses a process id only as an index   *)
(* and a page number only as a map key, and compares both for equality     *)
(* only, so a trace behaves as its renaming does.  The traces are taken    *)
(* one per renaming class: processes are numbered in order of first        *)
(* access (at most NumProcesses of them) and each process's pages in       *)
(* order of first access (at most MaxPage of them).                        *)
(***************************************************************************)
UsedPids(t) == {t[k][1] : k \in 1 .. Len(t)}
UsedPages(t, p) == {t[k][2] : k \in {x \in 1 .. Len(t) : t[x][1] = p}}

NextRecords(t) ==
    {<<p, g>> \in Procs \X Pages :
        /\ p <= Cardinality(UsedPids(t))
        /\ g <= Cardinality(UsedPages(t, p)) + 1}

RECURSIVE TracesOfLen(_)
TracesOfLen(n) ==
    IF n = 0 THEN {<<>>}
    ELSE UNION {{Append(t, r) : r \in NextRecords(t)} : t \in TracesOfLen(n - 1)}

TracesUpTo(n) == UNION {TracesOfLen(k) : k \in 0 .. n}

\* num_frames of the explored runs.  The global engine needs num_frames >= 1
\* (memory[0] is read by allocateFrame); the local engine needs a partition of
\* at least one frame, num_frames >= 4.
GlobalFrameCounts == 1 .. MaxFrames
LocalFrameCounts ==
    {NumProcesses * k + d : k \in 1 .. MaxPartition, d \in 0 .. MaxRemainder}

(***************************************************************************)
(* The program state: which program runs (engine), its arguments           *)
(* (replacement_policy, num_frames), the loaded trace, the loop index i of *)
(* runSimulation, the manager's fields, and last: the access the latest    *)
(* handleAccess call handled and what it did.  history is a record of the  *)
(* run kept beside the program: for every frame, the index of the access   *)
(* that installed its occupant and of the access that touched it last.     *)
(***************************************************************************)
VARIABLES engine, replacement_policy, num_frames, trace, i, pc,
          page_tables, frame_status, global_page_fault_count, last, history

vars == <<engine, replacement_policy, num_frames, trace, i, pc,
          page_tables, frame_status, global_page_fault_count, last, history>>

Manager ==
    [page_tables |-> page_tables, frame_status |-> frame_status,
     global_page_fault_count |-> global_page_fault_count]

NoAccess ==
    [kind |-> "none", old_pid |-> -1, old_page_no |-> 0, frame |-> -1,
     process_id |-> -1, page_number |-> 0]

\* The frames of an engine, each named by its owner and its index: the pool's
\* frame f is <<0, f>>, frame f of P's partition is <<P, f>>.
SlotsOf(e, fs) ==
    IF e = "global" THEN {0} \X (0 .. (fs.memoryFrames - 1))
    ELSE Procs \X (0 .. (fs.memoryFramesPerProcess - 1))

NoHistory(e, fs) ==
    [installed |-> [s \in SlotsOf(e, fs) |-> -1],
     touched   |-> [s \in SlotsOf(e, fs) |-> -1]]

\* The history after the access of index idx ended as out says.
Recorded(h, e, process_id, out, idx) ==
    LET s == IF e = "global" THEN <<0, out.frame>> ELSE <<process_id, out.frame>>
    IN  CASE s \notin DOMAIN h.touched -> h
          [] out.kind = "hit" -> [h EXCEPT !.touched[s] = idx]
          [] out.kind \in {"fault_free", "fault_evict"} ->
                 [h EXCEPT !.installed[s] = idx, !.touched[s] = idx]
          [] OTHER -> h

\* The state after construction and loadMemoryTrace.
Start(e, policy, nf, tr) ==
    LET vm == IF e = "global" THEN GlobalManager(nf) ELSE LocalManager(nf)
    IN  /\ engine = e
        /\ replacement_policy = policy
        /\ num_frames = nf
        /\ trace = tr
        /\ i = 0
        /\ pc = "run"
        /\ page_tables = vm.page_tables
        /\ frame_status = vm.frame_status
        /\ global_page_fault_count = 0
        /\ last = NoAccess
        /\ history = NoHistory(e, vm.frame_status)

\* The size of the region an eviction draws from.
RegionSize ==
    IF engine = "global" THEN frame_status.memoryFrames
    ELSE frame_status.memoryFramesPerProcess

\* The values of rand() that differ modulo the region size.
RandDraws == IF replacement_policy = "random" THEN 0 .. (RegionSize - 1) ELSE {0}

Becomes(h) ==
    /\ page_tables' = h.vm.page_tables
    /\ frame_status' = h.vm.frame_status
    /\ global_page_fault_count' = h.vm.global_page_fault_count
    /\ last' = [kind |-> h.out.kind, old_pid |-> h.out.old_pid,
                old_page_no |-> h.out.old_page_no, frame |-> h.out.frame,
                process_id |-> trace[i + 1][1], page_number |-> trace[i + 1][2]]
    /\ history' = Recorded(history, engine, trace[i + 1][1], h.out, i)
    /\ i' = i + 1
    /\ UNCHANGED <<engine, replacement_policy, num_frames, trace, pc>>

\* One iteration of runSimulation's loop, global.cpp.
GlobalAccess ==
    /\ pc = "run"
    /\ engine = "global"
    /\ i < Len(trace)
    /\ \E rnd \in RandDraws :
          Becomes(GlobalHandleAccess(Manager, replacement_policy, trace[i + 1][1],
                                     trace[i + 1][2], trace, i, rnd))

\* One iteration of runSimulation's loop, local.cpp.
LocalAccess ==
    /\ pc = "run"
    /\ engine = "local"
    /\ i < Len(trace)
    /\ \E rnd \in RandDraws :
          Becomes(LocalHandleAccess(Manager, replacement_policy, trace[i + 1][1],
                                    trace[i + 1][2], trace, i, rnd))

\* The loop ending one record early.
ReportEarly ==
    /\ pc = "run"
    /\ i >= Len(trace) - 1
    /\ pc' = "done"
    /\ UNCHANGED <<engine, replacement_policy, num_frames, trace, i,
                   page_tables, frame_status, global_page_fault_count, last,
                   history>>

\* The loop has ended: the counters are printed.
Report ==
    /\ pc = "run"
    /\ i = Len(trace)
    /\ pc' = "done"
    /\ UNCHANGED <<engine, replacement_policy, num_frames, trace, i,
                   page_tables, frame_status, global_page_fault_count, last,
                   history>>

Next == GlobalAccess \/ LocalAccess \/ Report

\* Every policy string, both programs, every trace up to MaxLen.
Init ==
    \E policy \in Policies, tr \in TracesUpTo(MaxLen) :
        \/ \E nf \in GlobalFrameCounts : Start("global", policy, nf, tr)
        \/ \E nf \in LocalFrameCounts : Start("local", policy, nf, tr)

Spec == Init /\ [][Next]_vars

(***************************************************************************)
(* runSimulation as a function of its inputs, for the policies that draw   *)
(* no random number: the loop folds handleAccess over the trace.           *)
(***************************************************************************)
NewManager(e, nf) == IF e = "global" THEN GlobalManager(nf) ELSE LocalManager(nf)

RECURSIVE RunLoop(_, _, _, _, _)
RunLoop(e, vm, policy, tr, idx) ==
    IF idx >= Len(tr) THEN vm
    ELSE LET h == IF e = "global"
                  THEN GlobalHandleAccess(vm, policy, tr[idx + 1][1], tr[idx + 1][2],
                                          tr, idx, 0)
                  ELSE LocalHandleAccess(vm, policy, tr[idx + 1][1], tr[idx + 1][2],
                                         tr, idx, 0)
         IN  RunLoop(e, h.vm, policy, tr, idx + 1)

RunSimulation(e, policy, nf, tr) == RunLoop(e, NewManager(e, nf), policy, tr, 0)

FaultCount(e, policy, nf, tr) == RunSimulation(e, policy, nf, tr).global_page_fault_count

(***************************************************************************)
(* Shared vocabulary of the properties                                     *)
(***************************************************************************)
FourPolicies == {"fifo", "lru", "optimal", "random"}

\* The frames process P can reach, and the occupant of one of them.
RegionFrames == 0 .. (RegionSize - 1)
Occupant(P, f) ==
    IF engine = "global" THEN frame_status.memory[f] ELSE frame_status.memory[P][f]

Resident(P) == DOMAIN page_tables[P].page_to_frame
FrameOf(P, p) == page_tables[P].page_to_frame[p]

\* A frame as the engine names it: the pool's frame f, or frame f of P's partition.
Slot(P, f) == IF engine = "global" THEN <<0, f>> ELSE <<P, f>>
Owners == IF engine = "global" THEN {0} ELSE Procs

RECURSIVE SumOver(_, _)
SumOver(f, S) ==
    IF S = {} THEN 0
    ELSE LET x == CHOOSE y \in S : TRUE IN f[x] + SumOver(f, S \ {x})

\* The page tables and the frames agree: page_to_frame[P][p] = f exactly when
\* the frame f reachable by P holds (P, p).  Every table entry points at a
\* frame of the region holding that very page, every occupied frame has its
\* table entry, and no frame is the target of two table entries.
TablesMatchFrames ==
    /\ \A P \in Procs : \A p \in Resident(P) :
          /\ FrameOf(P, p) \in RegionFrames
          /\ Occupant(P, FrameOf(P, p)) = <<P, p>>
    /\ \A o \in Owners : \A f \in RegionFrames :
          LET occ == Occupant(o, f)
          IN  occ # Free =>
                 /\ occ[1] \in Procs
                 /\ occ[2] \in Resident(occ[1])
                 /\ FrameOf(occ[1], occ[2]) = f
    /\ \A P, Q \in Procs : \A p \in Resident(P), q \in Resident(Q) :
          (Slot(P, FrameOf(P, p)) = Slot(Q, FrameOf(Q, q))) => (P = Q /\ p = q)

\* C1. Occupancy bijection: under each of the four policies, in both engines,
\* after every access step the page tables and the frames agree.
OccupancyBijection == replacement_policy \in FourPolicies => TablesMatchFrames

\* C1 witness: an eviction has just displaced another process's page, so two
\* page tables were rewritten in one step.
OccupancyBijectionWitness ==
    /\ replacement_policy \in FourPolicies
    /\ last.kind = "fault_evict"
    /\ last.old_pid # last.process_id
    /\ last.old_pid \in Procs

\* C2. Fault-count conservation: after every prefix of the trace, under every
\* policy string and in both engines, global_page_fault_count is the sum of
\* the four tables' page_fault_count.
FaultConservation ==
    global_page_fault_count =
        SumOver([P \in Procs |-> page_tables[P].page_fault_count], Procs)

\* C2 witness: faults of two different processes have been counted, one of
\* them by a miss that no policy branch served.
FaultConservationWitness ==
    /\ last.kind = "fault_dropped"
    /\ global_page_fault_count >= 3
    /\ Cardinality({P \in Procs : page_tables[P].page_fault_count > 0}) >= 2

\* C3. Fault accounting per step: an access (P, p) adds exactly 1 to the
\* global counter and to P's counter when p is not in P's page table before
\* the step and 0 when it is; no other process's counter changes.
AccessCounted ==
    LET P == trace[i + 1][1]
        p == trace[i + 1][2]
        d == IF p \in Resident(P) THEN 0 ELSE 1
    IN  /\ global_page_fault_count' = global_page_fault_count + d
        /\ page_tables'[P].page_fault_count = page_tables[P].page_fault_count + d
        /\ \A Q \in Procs \ {P} :
              page_tables'[Q].page_fault_count = page_tables[Q].page_fault_count

\* C3, as a property of every access step of either engine.
FaultAccounting == [][i' = i + 1 => AccessCounted]_vars

\* C3 witness: a hit following faults of the same and of another process.
FaultAccountingWitness ==
    /\ last.kind = "hit"
    /\ page_tables[last.process_id].page_fault_count >= 1
    /\ \E Q \in Procs \ {last.process_id} : page_tables[Q].page_fault_count >= 1

\* The pages process P accesses in the trace, and all (process, page) pairs.
DistinctPages(tr, P) == {tr[k][2] : k \in {x \in 1 .. Len(tr) : tr[x][1] = P}}
DistinctRecords(tr) == {tr[k] : k \in 1 .. Len(tr)}

\* P's final count is its number of distinct pages and all of them are still
\* resident: each was loaded once and none was evicted.
OnlyCompulsoryMisses(P) ==
    /\ page_tables[P].page_fault_count = Cardinality(DistinctPages(trace, P))
    /\ Resident(P) = DistinctPages(trace, P)

\* C5 as stated: if the pages P accesses fit P's reachable region (the whole
\* pool in the global engine, P's partition in the local one), P's final fault
\* count is its number of distinct pages and none of its pages is evicted.
CompulsoryMissPerProcess ==
    (pc = "done" /\ replacement_policy \in FourPolicies) =>
        \A P \in Procs :
            Cardinality(DistinctPages(trace, P)) <= RegionSize => OnlyCompulsoryMisses(P)

\* C5 amended: in the global engine the pool is shared, so what must fit the
\* pool is the set of pages of all processes; in the local engine it is P's
\* own pages that must fit P's partition.
CompulsoryMissBound ==
    (pc = "done" /\ replacement_policy \in FourPolicies) =>
        \A P \in Procs :
            LET demand == IF engine = "global"
                          THEN Cardinality(DistinctRecords(trace))
                          ELSE Cardinality(DistinctPages(trace, P))
            IN  demand <= RegionSize => OnlyCompulsoryMisses(P)

\* C5 witness: a local run in which one process fills its partition of two
\* frames exactly while another process overflows its own and evicts.
CompulsoryMissBoundWitness ==
    /\ pc = "done"
    /\ engine = "local"
    /\ replacement_policy \in FourPolicies
    /\ RegionSize = 2
    /\ \E P, Q \in Procs :
          /\ Cardinality(DistinctPages(trace, P)) = 2
          /\ page_tables[P].page_fault_count = 2
          /\ Cardinality(DistinctPages(trace, Q)) > 2
          /\ page_tables[Q].page_fault_count > 2

\* C10. Local-mode isolation: in the local engine an access by P, under any
\* policy string, leaves the partition, recency list, cursor and page table
\* of every other process unchanged, and an eviction reports P as the
\* evicted process.
OthersUntouched ==
    LET P == trace[i + 1][1]
    IN  /\ \A Q \in Procs \ {P} :
              /\ frame_status'.memory[Q] = frame_status.memory[Q]
              /\ frame_status'.lru_list[Q] = frame_status.lru_list[Q]
              /\ frame_status'.nextFrame[Q] = frame_status.nextFrame[Q]
              /\ page_tables'[Q].page_to_frame = page_tables[Q].page_to_frame
        /\ last'.kind = "fault_evict" => last'.old_pid = P

\* C10, as a property of every access step of the local engine.
LocalIsolation == [][(engine = "local" /\ i' = i + 1) => OthersUntouched]_vars

\* C10 witness: a local eviction while another process has pages resident.
LocalIsolationWitness ==
    /\ engine = "local"
    /\ last.kind = "fault_evict"
    /\ \E Q \in Procs \ {last.process_id} : Resident(Q) # {}

(***************************************************************************)
(* Comparisons of runs on one trace.  The run the state machine makes is   *)
(* compared, when it ends, with runSimulation of the other configuration   *)
(* on the same trace.                                                      *)
(***************************************************************************)
\* The policies compared with optimal, both programs, every trace up to MaxLen.
InitPolicies ==
    \E policy \in {"fifo", "lru", "random"}, tr \in TracesUpTo(MaxLen) :
        \/ \E nf \in GlobalFrameCounts : Start("global", policy, nf, tr)
        \/ \E nf \in LocalFrameCounts : Start("local", policy, nf, tr)

SpecPolicies == InitPolicies /\ [][Next]_vars

\* C6. Optimal minimality: on the same trace, engine and frame count, the
\* final fault count under optimal is at most the final count under fifo,
\* under lru and under random, whatever numbers rand() returns.
OptimalMinimality ==
    pc = "done" =>
        FaultCount(engine, "optimal", num_frames, trace) <= global_page_fault_count

\* C6 witness: a finished random run that evicted and did strictly worse than
\* optimal does on its trace.
OptimalMinimalityWitness ==
    /\ pc = "done"
    /\ replacement_policy = "random"
    /\ last.kind = "fault_evict"
    /\ FaultCount(engine, "optimal", num_frames, trace) < global_page_fault_count

\* The frame counts not above num_frames for which the running engine is defined.
SmallerFrameCounts ==
    IF engine = "global" THEN 1 .. num_frames ELSE NumProcesses .. num_frames

\* C7. LRU stack property: for a fixed trace, the final fault count under lru
\* with num_frames frames is at most the count with any smaller frame count
\* (per partition of num_frames / 4 frames in the local engine).
LruStackProperty ==
    (pc = "done" /\ replacement_policy = "lru") =>
        \A n1 \in SmallerFrameCounts :
            global_page_fault_count <= FaultCount(engine, "lru", n1, trace)

\* C7 witness: a finished lru run that evicted, and on whose trace a smaller
\* frame count faults strictly more often.
LruStackPropertyWitness ==
    /\ pc = "done"
    /\ replacement_policy = "lru"
    /\ last.kind = "fault_evict"
    /\ \E n1 \in SmallerFrameCounts :
          global_page_fault_count < FaultCount(engine, "lru", n1, trace)

\* The global program alone: its loop and its report.
NextGlobal == GlobalAccess \/ Report

\* The shared pool at the frame counts that give each partition one frame,
\* under the policies that draw no random number.  A pool of NumProcesses
\* frames first evicts at its fifth distinct page, so the traces run to
\* MaxLenShared records.
InitShared ==
    \E policy \in Deterministic, tr \in TracesUpTo(MaxLenShared),
       nf \in NumProcesses .. (NumProcesses + MaxRemainder) :
        Start("global", policy, nf, tr)

SpecShared == InitShared /\ [][NextGlobal]_vars

\* C4 as stated: under fifo, lru and optimal, on every trace and at every frame
\* count both engines accept, the global engine's final fault count is at most
\* the local engine's.
GlobalDominatesLocal ==
    pc = "done" =>
        global_page_fault_count <= FaultCount("local", replacement_policy, num_frames, trace)

\* C4 amended: the dominance holds under optimal.
GlobalDominatesLocalOptimal ==
    (pc = "done" /\ replacement_policy = "optimal") =>
        global_page_fault_count <= FaultCount("local", "optimal", num_frames, trace)

\* C4 witness: a finished optimal run of the shared pool that had to evict and
\* still faulted strictly less often than the partitions do.
GlobalDominatesLocalOptimalWitness ==
    /\ pc = "done"
    /\ replacement_policy = "optimal"
    /\ global_page_fault_count > num_frames
    /\ global_page_fault_count < FaultCount("local", "optimal", num_frames, trace)

(***************************************************************************)
(* The worked examples: one process replaying a fixed page sequence        *)
(* against the shared pool.                                                *)
(***************************************************************************)
BeladyPages == <<1, 2, 3, 4, 1, 2, 5, 1, 2, 3, 4, 5>>
ThrashPages == <<1, 2, 3, 1, 2, 3>>
AlternatingPages == <<1, 2, 1, 2, 1, 2>>

SingleProcessTrace(P, pages) == [k \in 1 .. Len(pages) |-> <<P, pages[k]>>]

InitExamples ==
    \E policy \in {"fifo", "lru"}, P \in Procs, nf \in 2 .. 4,
       pages \in {BeladyPages, ThrashPages, AlternatingPages} :
        Start("global", policy, nf, SingleProcessTrace(P, pages))

SpecExamples == InitExamples /\ [][NextGlobal]_vars

\* C8. FIFO Belady regression: one process accessing pages
\* 1,2,3,4,1,2,5,1,2,3,4,5 under fifo in the global engine ends with exactly
\* 9 faults with 3 frames and exactly 10 faults with 4 frames.
BeladyRegression ==
    (/\ pc = "done"
     /\ replacement_policy = "fifo"
     /\ \E P \in Procs : trace = SingleProcessTrace(P, BeladyPages)) =>
        /\ num_frames = 3 => global_page_fault_count = 9
        /\ num_frames = 4 => global_page_fault_count = 10

\* C8 witness: the 4-frame fifo run of the sequence has ended, after evictions.
BeladyRegressionWitness ==
    /\ pc = "done"
    /\ replacement_policy = "fifo"
    /\ num_frames = 4
    /\ \E P \in Procs : trace = SingleProcessTrace(P, BeladyPages)
    /\ last.kind = "fault_evict"

\* C9. End-to-end example: with 2 frames in the global engine and process 0
\* alone, under fifo and under lru, pages 1,2,3,1,2,3 fault at every access
\* (6 faults) and pages 1,2,1,2,1,2 fault at the first two accesses only
\* (2 faults).
EndToEndExample ==
    num_frames = 2 =>
        /\ trace = SingleProcessTrace(0, ThrashPages) =>
              /\ global_page_fault_count = i
              /\ pc = "done" => global_page_fault_count = 6
        /\ trace = SingleProcessTrace(0, AlternatingPages) =>
              /\ global_page_fault_count = (IF i < 2 THEN i ELSE 2)
              /\ pc = "done" => global_page_fault_count = 2

\* C9 witness: the lru run of 1,2,1,2,1,2 with 2 frames has ended on a hit.
EndToEndExampleWitness ==
    /\ pc = "done"
    /\ replacement_policy = "lru"
    /\ num_frames = 2
    /\ trace = SingleProcessTrace(0, AlternatingPages)
    /\ last.kind = "hit"

(***************************************************************************)
(* Runs under a policy string that no branch of handleAccess matches.  The *)
(* loop of runSimulation never waits, so a run that can take a step takes  *)
(* it.                                                                     *)
(***************************************************************************)
InitUnrecognized ==
    \E policy \in Policies \ FourPolicies, tr \in TracesUpTo(MaxLen) :
        \/ \E nf \in GlobalFrameCounts : Start("global", policy, nf, tr)
        \/ \E nf \in LocalFrameCounts : Start("local", policy, nf, tr)

SpecUnrecognized == InitUnrecognized /\ [][Next]_vars /\ WF_vars(Next)

\* Every frame the process of the next record can reach is occupied.
RegionFull(P) == \A f \in RegionFrames : Occupant(P, f) # Free

\* The page-to-frame maps of all processes.
Mappings == [P \in Procs |-> page_tables[P].page_to_frame]

\* A miss that finds its region full is counted and changes nothing else.
MissDropped ==
    LET P == trace[i + 1][1]
        p == trace[i + 1][2]
    IN  (p \notin Resident(P) /\ RegionFull(P)) =>
            /\ frame_status' = frame_status
            /\ Mappings' = Mappings
            /\ global_page_fault_count' = global_page_fault_count + 1
            /\ last'.kind = "fault_dropped"

\* C11 as stated: under an unrecognised policy, once a miss has found no free
\* frame the run reaches a state in which the page tables and the frames
\* disagree.
UnrecognizedPolicyDesync ==
    (replacement_policy \notin FourPolicies /\ last.kind = "fault_dropped")
        ~> ~TablesMatchFrames

\* C11 amended: under an unrecognised policy a miss with no free frame runs
\* no eviction; it is counted, the accessed page stays non-resident, and
\* frames, cursors, recency lists and page tables stay as they were, so the
\* page tables and the frames agree after every access.
UnrecognizedPolicyKeepsState ==
    [][(replacement_policy \notin FourPolicies /\ i' = i + 1) =>
          (MissDropped /\ TablesMatchFrames')]_vars

\* C11 witness: a full region has refused a miss and the run has ended with
\* the refused page still absent from its process's table.
UnrecognizedPolicyKeepsStateWitness ==
    /\ replacement_policy \notin FourPolicies
    /\ pc = "done"
    /\ last.kind = "fault_dropped"
    /\ last.page_number \notin Resident(last.process_id)
    /\ \E P \in Procs : Resident(P) # {}
(***************************************************************************)
(* Determinism.  rand() is the only input of handleAccess besides the      *)
(* manager's state, the record and the trace.                              *)
(***************************************************************************)
\* handleAccess of the engine running, on the next record, with rand()
\* returning rnd.
HandleNext(rnd) ==
    IF engine = "global"
    THEN GlobalHandleAccess(Manager, replacement_policy, trace[i + 1][1],
                            trace[i + 1][2], trace, i, rnd)
    ELSE LocalHandleAccess(Manager, replacement_policy, trace[i + 1][1],
                           trace[i + 1][2], trace, i, rnd)

\* The access step taken is the one handleAccess takes whatever rand() returns.
StepIgnoresRand ==
    \A rnd \in 0 .. RegionSize :
        /\ Manager' = HandleNext(rnd).vm
        /\ last'.kind = HandleNext(rnd).out.kind

\* The counters the run ends with are those of a second run on the same input.
SameCountsAgain ==
    LET again == RunSimulation(engine, replacement_policy, num_frames, trace)
    IN  /\ global_page_fault_count = again.global_page_fault_count
        /\ \A P \in Procs :
              page_tables[P].page_fault_count = again.page_tables[P].page_fault_count

DeterministicStep ==
    replacement_policy \in Deterministic =>
        /\ (i' = i + 1) => StepIgnoresRand
        /\ (pc = "run" /\ pc' = "done") => SameCountsAgain

\* C12. Determinism: under fifo, lru and optimal the successor of every access
\* step is a function of the current state and the record (no value of
\* rand() changes the manager's next state or the hit/fault classification),
\* and a second run of the same engine on the same trace and frame count
\* ends with the same global and per-process fault counts.
Determinism == [][DeterministicStep]_vars

\* C12 witness: a finished fifo, lru or optimal run over a region of at least
\* two frames, with hits and with an eviction at its last access.
DeterminismWitness ==
    /\ replacement_policy \in Deterministic
    /\ pc = "done"
    /\ RegionSize >= 2
    /\ last.kind = "fault_evict"
    /\ global_page_fault_count < i
(***************************************************************************)
(* Every num_frames >= 1.  src/local.cpp gives each process num_frames / 4 *)
(* frames and main does not refuse num_frames < 4: the four vectors of     *)
(* memory are then empty, allocateFrame returns -1 at the first miss and   *)
(* the replacement function of the policy runs on an empty partition.      *)
(* What it does there is undefined: fifoReplacement reads                  *)
(* memory[process_id][0] and computes 1 % 0, lruReplacement calls front()  *)
(* and pop_front() on an empty list, optimalReplacement writes             *)
(* memory[process_id][-1], randomReplacement computes rand() % 0.  The     *)
(* step is modelled by every outcome: the process is killed, or the call   *)
(* returns a tuple made of whatever it read.                               *)
(***************************************************************************)
\* num_frames too small to give a process a frame, and the longest trace
\* explored with them.
EmptyPartitionFrameCounts == 1 .. (NumProcesses - 1)
MaxLenEmpty == 3

\* Values an out-of-bounds read or a division by zero may leave in an int.
Garbage == {-1, 0, 1}

\* The next access is a miss of the local engine on an empty partition, under
\* a policy with a replacement function.
OnEmptyPartition ==
    /\ engine = "local"
    /\ RegionSize = 0
    /\ replacement_policy \in FourPolicies
    /\ i < Len(trace)
    /\ trace[i + 1][2] \notin Resident(trace[i + 1][1])

\* The frame index the replacement function works on.
EmptyPartitionVictims ==
    CASE replacement_policy = "fifo"    -> {frame_status.nextFrame[trace[i + 1][1]]}
      [] replacement_policy = "optimal" -> {-1}
      [] OTHER                          -> Garbage

\* The frame status a returning call leaves: memory has no element to write,
\* the cursor holds the result of the division, the list what push_back left.
EmptyPartitionStatus(P, v) ==
    CASE replacement_policy = "fifo" ->
             {[frame_status EXCEPT !.nextFrame[P] = g] : g \in Garbage \ {-1}}
      [] replacement_policy = "lru" ->
             {frame_status, [frame_status EXCEPT !.lru_list[P] = <<v>>]}
      [] OTHER -> {frame_status}

LocalAccessOnEmptyPartition ==
    /\ pc = "run"
    /\ OnEmptyPartition
    /\ LET P == trace[i + 1][1]
           p == trace[i + 1][2]
           vm1 == CountFault(Manager, P)
       IN  \E v \in EmptyPartitionVictims, old_pid \in Garbage, old_page_no \in {0, 1} :
              /\ global_page_fault_count' = vm1.global_page_fault_count
              /\ last' = [kind |-> "fault_evict", old_pid |-> old_pid,
                          old_page_no |-> old_page_no, frame |-> v,
                          process_id |-> P, page_number |-> p]
              /\ \/ \* killed by the trap or the bad access
                    /\ pc' = "aborted"
                    /\ page_tables' = vm1.page_tables
                    /\ UNCHANGED <<frame_status, i>>
                 \/ \* the tuple is returned and handleAccess goes on
                    /\ old_pid \in Procs
                    /\ page_tables' =
                          UpdateTables(vm1.page_tables,
                                       [old_pid |-> old_pid, old_page_no |-> old_page_no,
                                        frame |-> v], P, p)
                    /\ frame_status' \in EmptyPartitionStatus(P, v)
                    /\ i' = i + 1
                    /\ pc' = pc
              /\ UNCHANGED <<engine, replacement_policy, num_frames, trace, history>>

\* The accesses whose behaviour the language defines.
LocalAccessDefined == ~OnEmptyPartition /\ LocalAccess

NextAnyFrames ==
    GlobalAccess \/ LocalAccessDefined \/ LocalAccessOnEmptyPartition \/ Report

InitAnyFrames ==
    \E policy \in FourPolicies, tr \in TracesUpTo(MaxLen) :
        \/ \E nf \in GlobalFrameCounts : Start("global", policy, nf, tr)
        \/ \E nf \in LocalFrameCounts : Start("local", policy, nf, tr)
        \/ /\ Len(tr) <= MaxLenEmpty
           /\ \E nf \in EmptyPartitionFrameCounts : Start("local", policy, nf, tr)

SpecAnyFrames == InitAnyFrames /\ [][NextAnyFrames]_vars

\* The step ran a replacement function.
Evicting ==
    /\ last'.kind = "fault_evict"
    /\ i' = i + 1 \/ pc' = "aborted"

\* The frame the replacement function worked on is a frame of the region of
\* the faulting process, occupied before the step by the pair reported.
VictimValid ==
    /\ last'.frame \in RegionFrames
    /\ Occupant(last'.process_id, last'.frame) # Free
    /\ Occupant(last'.process_id, last'.frame) = <<last'.old_pid, last'.old_page_no>>

\* C13. Valid victim: for every num_frames >= 1, in both engines, every call
\* of fifoReplacement, lruReplacement, optimalReplacement or
\* randomReplacement selects a frame of the reachable region
\* (0 <= index < region size) that is occupied when selected, and reports
\* that frame's occupant as the evicted (process, page).
ValidVictim == [][Evicting => VictimValid]_vars
(***************************************************************************)
(* The allocator of the shared pool                                        *)
(***************************************************************************)
\* What allocateFrame answers to the next record, a miss, and what the step
\* then does.
AllocationTellsFull ==
    LET P == trace[i + 1][1]
        p == trace[i + 1][2]
        a == GlobalAllocateFrame(frame_status, P, p)
    IN  p \notin Resident(P) =>
            /\ (a.frame = -1) <=> RegionFull(P)
            /\ (last'.kind = "fault_free") <=> ~RegionFull(P)
            /\ replacement_policy \in FourPolicies =>
                   ((last'.kind = "fault_evict") <=> RegionFull(P))

\* C14. Allocation failure means full: in the global engine, under every
\* policy, allocateFrame returns -1 if and only if every frame of the pool is
\* occupied, although it tests only the frame at the cursor; the miss is
\* served from a free frame exactly when one exists, and under the four
\* policies it evicts exactly when none exists.
AllocationFailureMeansFull ==
    [][(engine = "global" /\ i' = i + 1) => AllocationTellsFull]_vars

\* C14 witness: the pool of at least two frames is full, the cursor is not at
\* frame 0, and the miss just served had to evict.
AllocationFailureMeansFullWitness ==
    /\ engine = "global"
    /\ RegionSize >= 2
    /\ last.kind = "fault_evict"
    /\ frame_status.nextFrame # 0
    /\ RegionFull(0)
(***************************************************************************)
(* Which page each policy evicts                                           *)
(***************************************************************************)
\* The rotation cursor process P's evictions use.
CursorOf(fs, P) == IF engine = "global" THEN fs.nextFrame ELSE fs.nextFrame[P]

\* The access that installed the occupant of frame f of P's region, and the
\* latest access that touched it (its installation or a later hit).
InstalledAt(P, f) == history.installed[Slot(P, f)]
TouchedAt(P, f) == history.touched[Slot(P, f)]

\* The step evicts, under the given policy.
Evicts(policy) ==
    /\ replacement_policy = policy
    /\ i' = i + 1
    /\ last'.kind = "fault_evict"

\* The page the step removes is the occupant of the frame it reports, and it
\* is resident no longer.
RemovesOccupant ==
    /\ Occupant(last'.process_id, last'.frame) = <<last'.old_pid, last'.old_page_no>>
    /\ last'.old_page_no \notin DOMAIN page_tables'[last'.old_pid].page_to_frame

FifoEvictsOldest ==
    LET P == last'.process_id
        v == last'.frame
    IN  /\ v = CursorOf(frame_status, P)
        /\ RemovesOccupant
        /\ \A f \in RegionFrames \ {v} :
              /\ Occupant(P, f) # Free
              /\ InstalledAt(P, v) < InstalledAt(P, f)
        /\ CursorOf(frame_status', P) = (CursorOf(frame_status, P) + 1) % RegionSize

\* C15. FIFO victim is the oldest: under fifo, in both engines, every
\* eviction removes the page installed earliest among the pages resident in
\* the region, which is the page in the frame at the rotation cursor, and the
\* cursor then advances by one modulo the region size.
FifoVictimIsOldest == [][Evicts("fifo") => FifoEvictsOldest]_vars

\* C15 witness: a fifo eviction in a region of at least two frames after which
\* the cursor has wrapped to frame 0, in a run that evicted before.
FifoVictimIsOldestWitness ==
    /\ replacement_policy = "fifo"
    /\ last.kind = "fault_evict"
    /\ RegionSize >= 2
    /\ last.frame = RegionSize - 1
    /\ CursorOf(frame_status, last.process_id) = 0

LruEvictsLeastRecent ==
    LET P == last'.process_id
        v == last'.frame
    IN  /\ RemovesOccupant
        /\ \A f \in RegionFrames \ {v} :
              /\ Occupant(P, f) # Free
              /\ TouchedAt(P, v) < TouchedAt(P, f)

\* C16. LRU victim is the least recently touched: under lru, in both engines,
\* every eviction removes the resident page of the region whose most recent
\* access (its installation or a later hit) is the earliest among the pages
\* resident in that region.
LruVictimIsLeastRecent == [][Evicts("lru") => LruEvictsLeastRecent]_vars

\* C16 witness: an lru eviction has spared a frame whose page was installed
\* first in the region and hit since.
LruVictimIsLeastRecentWitness ==
    /\ replacement_policy = "lru"
    /\ last.kind = "fault_evict"
    /\ \E f \in RegionFrames \ {last.frame} :
          /\ TouchedAt(last.process_id, f) > InstalledAt(last.process_id, f)
          /\ \A g \in RegionFrames \ {f} :
                InstalledAt(last.process_id, f) < InstalledAt(last.process_id, g)
\* The positions after the record being handled at which the occupant of
\* frame f of P's region occurs in the trace.
LaterUses(P, f) == {k \in (i + 2) .. Len(trace) : trace[k] = Occupant(P, f)}

\* The frames of P's region whose occupant the trace never names again.
NeverUsedAgain(P) == {f \in RegionFrames : LaterUses(P, f) = {}}

OptimalRule ==
    LET P == last'.process_id
        v == last'.frame
    IN  /\ v \in RegionFrames
        /\ RemovesOccupant
        /\ IF NeverUsedAgain(P) # {}
           THEN /\ v \in NeverUsedAgain(P)
                /\ \A f \in NeverUsedAgain(P) : v <= f
           ELSE \A f \in RegionFrames \ {v} :
                    \E k \in LaterUses(P, v) :
                        /\ \A m \in LaterUses(P, v) : k <= m
                        /\ \E n \in LaterUses(P, f) : n < k

\* C17. Optimal selection rule: under optimal, at a fault at trace position
\* i, if some frame of the region holds a (process, page) pair that occurs at
\* no position after i in the whole trace, the victim is the lowest-indexed
\* such frame; otherwise the victim is the frame whose occupant's next
\* occurrence after i has the greatest position.
OptimalSelectionRule == [][Evicts("optimal") => OptimalRule]_vars

\* C17 witness: an optimal eviction in a region of at least two frames whose
\* victim is named again later in the trace, so every frame had a later use
\* and the farthest one was chosen.
OptimalSelectionRuleWitness ==
    /\ replacement_policy = "optimal"
    /\ last.kind = "fault_evict"
    /\ RegionSize >= 2
    /\ \E k \in (i + 1) .. Len(trace) : trace[k] = <<last.old_pid, last.old_page_no>>
(***************************************************************************)
(* Hits                                                                    *)
(***************************************************************************)
\* The recency list P's frames are kept in.
RecencyOf(fs, P) == IF engine = "global" THEN fs.lru_list ELSE fs.lru_list[P]

\* The list with frame f moved to its most-recently-used end, the others
\* keeping their order.
MovedToEnd(list, f) == Append(SelectSeq(list, LAMBDA x : x # f), f)

\* The frame status with P's recency list replaced.
WithRecency(fs, P, list) ==
    IF engine = "global" THEN [fs EXCEPT !.lru_list = list]
    ELSE [fs EXCEPT !.lru_list[P] = list]

HitChangesNothing ==
    LET P == trace[i + 1][1]
        p == trace[i + 1][2]
    IN  p \in Resident(P) =>
            /\ frame_status'.memory = frame_status.memory
            /\ frame_status'.nextFrame = frame_status.nextFrame
            /\ page_tables' = page_tables
            /\ global_page_fault_count' = global_page_fault_count
            /\ IF replacement_policy = "lru"
               THEN frame_status' =
                        WithRecency(frame_status, P,
                                    MovedToEnd(RecencyOf(frame_status, P), FrameOf(P, p)))
               ELSE frame_status' = frame_status

\* C18. Hit leaves state unchanged: an access whose page is in its process's
\* page table changes no frame occupant, no page-table entry, no fault
\* counter and no rotation cursor; under a policy other than lru it changes
\* nothing at all, and under lru it only moves the hit frame to the
\* most-recently-used end of its recency list, the other frames keeping
\* their relative order.
HitLeavesStateUnchanged == [][(i' = i + 1) => HitChangesNothing]_vars

\* C18 witness: under lru, a hit on the page installed first in a region
\* holding at least two pages; the frame hit is now last in its list.
HitLeavesStateUnchangedWitness ==
    /\ replacement_policy = "lru"
    /\ last.kind = "hit"
    /\ Len(RecencyOf(frame_status, last.process_id)) >= 2
    /\ RecencyOf(frame_status, last.process_id)
           [Len(RecencyOf(frame_status, last.process_id))] = last.frame
    /\ \A g \in RegionFrames \ {last.frame} :
          Occupant(last.process_id, g) # Free =>
              InstalledAt(last.process_id, last.frame) < InstalledAt(last.process_id, g)
(***************************************************************************)
(* How many pages are resident                                             *)
(***************************************************************************)
\* The occupied frames, each named by owner and index.
OccupiedSlots == {s \in SlotsOf(engine, frame_status) : Occupant(s[1], s[2]) # Free}

ResidentCount == SumOver([P \in Procs |-> Cardinality(Resident(P))], Procs)

\* C19. Resident-set bound: at every step, in the local engine each process
\* has at most num_frames / 4 (integer division) resident pages, all in
\* frames 0 .. num_frames / 4 - 1 of its partition, so at most
\* 4 * (num_frames / 4) frames are occupied and the remainder is never used;
\* in the global engine at most num_frames pages are resident in all.
ResidentSetBound ==
    IF engine = "local"
    THEN /\ \A P \in Procs :
               /\ Cardinality(Resident(P)) <= num_frames \div NumProcesses
               /\ \A p \in Resident(P) :
                     FrameOf(P, p) \in 0 .. ((num_frames \div NumProcesses) - 1)
         /\ Cardinality(OccupiedSlots) <= NumProcesses * (num_frames \div NumProcesses)
         /\ Cardinality(OccupiedSlots) <= num_frames
    ELSE /\ ResidentCount <= num_frames
         /\ Cardinality(OccupiedSlots) <= num_frames

\* C19 witness: a local run whose num_frames is not a multiple of 4, in which
\* a process holding its full share has just had to evict while fewer than
\* num_frames frames are occupied.
ResidentSetBoundWitness ==
    /\ engine = "local"
    /\ num_frames % NumProcesses # 0
    /\ last.kind = "fault_evict"
    /\ Cardinality(Resident(last.process_id)) = num_frames \div NumProcesses
    /\ Cardinality(OccupiedSlots) < num_frames
(***************************************************************************)
(* Termination.  runSimulation is a sequential loop: nothing it waits for, *)
(* so a step that can be taken is taken.                                   *)
(***************************************************************************)
\* The longest trace of the runs followed to their end.
MaxLenFair == 3

InitFair ==
    \E policy \in Policies, tr \in TracesUpTo(MaxLenFair) :
        \/ \E nf \in GlobalFrameCounts : Start("global", policy, nf, tr)
        \/ \E nf \in LocalFrameCounts : Start("local", policy, nf, tr)

SpecFair == InitFair /\ [][Next]_vars /\ WF_vars(Next)

\* A step handles the record at the loop index and moves the index by one,
\* or it is the report, taken once the index has passed the last record.
HandlesNextRecord ==
    \/ /\ pc = "run"
       /\ i < Len(trace)
       /\ i' = i + 1
       /\ <<last'.process_id, last'.page_number>> = trace[i + 1]
       /\ pc' = "run"
    \/ /\ pc = "run"
       /\ i = Len(trace)
       /\ i' = i
       /\ pc' = "done"

\* No record has been handled yet, and the report has not been made.
NothingHandled == pc = "run" /\ i = 0

\* C20. Termination and ordering: for every finite trace the run handles
\* record 0, then record 1, and so on, each exactly once and none again,
\* eventually reaches the reporting state after the last record, and has then
\* handled as many records as the trace holds.
TerminationAndOrdering ==
    /\ NothingHandled
    /\ [][HandlesNextRecord /\ (pc' = "done" => i' = Len(trace))]_vars
    /\ <>(pc = "done")

\* C20 witness: a run over a trace of at least three records has reported,
\* having met hits and faults on the way.
TerminationAndOrderingWitness ==
    /\ pc = "done"
    /\ i = Len(trace)
    /\ i >= 3
    /\ 0 < global_page_fault_count
    /\ global_page_fault_count < i
(***************************************************************************)
(* The recency lists                                                       *)
(***************************************************************************)
\* The occupied frames of the region owner o names.
OccupiedFrames(o) == {f \in RegionFrames : Occupant(o, f) # Free}

\* Every recency list holds the indices of the occupied frames of its region,
\* each once.
RecencyListsMatchFrames ==
    \A o \in Owners :
        LET list == RecencyOf(frame_status, o)
        IN  /\ {list[k] : k \in 1 .. Len(list)} = OccupiedFrames(o)
            /\ Len(list) = Cardinality(OccupiedFrames(o))

RecencyStep ==
    replacement_policy = "lru" =>
        /\ RecencyListsMatchFrames'
        /\ Evicting => RecencyOf(frame_status, last'.process_id) # <<>>

\* C21. Recency list well-formedness: under lru, after every access step the
\* recency list of a region (the pool's lru_list, or lru_list[P]) holds
\* exactly the indices of the occupied frames of that region, each once, so
\* its length is the number of occupied frames, and lruReplacement never
\* reads the front of an empty list.
RecencyListWellFormed == [][RecencyStep]_vars
====
